---- MODULE Spec2Model ----
(***************************************************************************)
(* A model of src/src/Emitter.js: the listener registry (#events,          *)
(* #maxListeners), its registration, removal and capacity operations and   *)
(* the asynchronous emit, one action per JavaScript turn.                  *)
(***************************************************************************)
EXTENDS Integers, Sequences, FiniteSets, TLC

VARIABLES
    events,        \* #events: own keys -> array of {isOnce, listener}
    maxListeners,  \* #maxListeners: Num(n) or Infinity
    em,            \* the emit() calls in flight, one record per caller
    last           \* the last synchronous call and how it ended

vars == <<events, maxListeners, em, last>>

----------------------------------------------------------------------------
(* Bounds of the model.                                                    *)

\* at most this many records over all events
MaxRecords == 3
\* the integer capacities tried are 0..MaxCap
MaxCap == 2

----------------------------------------------------------------------------
(* JavaScript values.                                                      *)

\* a string is the sequence of its characters
Str(s) == [t |-> "string", s |-> s]
Undefined == [t |-> "undefined", s |-> <<>>]
NotAString == [t |-> "number", s |-> <<>>]

\* numbers: integers, Infinity, NaN, a fraction (n + 1/2); and a non-number
Num(n) == [t |-> "int", n |-> n]
Infinity == [t |-> "inf", n |-> 0]
NaN == [t |-> "nan", n |-> 0]
Frac(n) == [t |-> "frac", n |-> n]
NoNumber == [t |-> "object", n |-> 0]
NoArgument == [t |-> "undefined", n |-> 0]

DefaultMaxListeners == 10

Whitespace == {" "}

RECURSIVE TrimStart(_)
TrimStart(s) ==
    IF s # <<>> /\ Head(s) \in Whitespace THEN TrimStart(Tail(s)) ELSE s

RECURSIVE TrimEnd(_)
TrimEnd(s) ==
    IF s # <<>> /\ s[Len(s)] \in Whitespace
    THEN TrimEnd(SubSeq(s, 1, Len(s) - 1))
    ELSE s

\* String.prototype.trim
Trim(s) == TrimEnd(TrimStart(s))

\* typeof eventName !== 'string' || !eventName.trim()
InvalidEventName(eventName) ==
    eventName.t # "string" \/ Trim(eventName.s) = <<>>

\* the functions a caller may register; any other value is not callable
Functions == {"f", "g"}
TypeOf(listener) ==
    IF listener \in Functions THEN "function"
    ELSE IF listener = "undefined" THEN "undefined" ELSE "object"

\* a < b on numbers that passed the setter's validation (integer or Infinity)
Less(a, b) ==
    IF a.t = "inf" THEN FALSE
    ELSE IF b.t = "inf" THEN TRUE
    ELSE a.n < b.n

----------------------------------------------------------------------------
(* The inputs the operations are called with.                              *)

\* valid event names: "a", " a" (equal to "a" after trimming) and "b"
EventNameInputs == { Str(<<"a">>), Str(<<" ", "a">>), Str(<<"b">>) }

ListenerInputs == Functions

\* valid capacities: 0 .. MaxCap, Infinity, and none given (the default)
CapacityInputs == { Num(n) : n \in 0 .. MaxCap } \cup { Infinity, NoArgument }

----------------------------------------------------------------------------
(* The registry.                                                           *)

\* this.#events = {}
EmptyRegistry == [k \in {} |-> <<>>]

\* eventName in this.#events
In(key, ev) == key \in DOMAIN ev

\* this.#events[eventName] = value
Put(ev, key, value) ==
    [k \in DOMAIN ev \cup {key} |-> IF k = key THEN value ELSE ev[k]]

\* delete this.#events[eventName]
Delete(ev, key) == [k \in DOMAIN ev \ {key} |-> ev[k]]

\* array.splice(index, 1), index counted from 0
Splice(arr, index) ==
    IF index < Len(arr)
    THEN SubSeq(arr, 1, index) \o SubSeq(arr, index + 2, Len(arr))
    ELSE arr

RECURSIVE SumLen(_, _)
SumLen(ev, keys) ==
    IF keys = {} THEN 0
    ELSE LET k == CHOOSE x \in keys : TRUE
         IN Len(ev[k]) + SumLen(ev, keys \ {k})

TotalRecords(ev) == SumLen(ev, DOMAIN ev)

\* #removeEventListener with shift() in the place of splice(index, 1)
RemoveEventListenerShift(ev, key, index) ==
    LET spliced == Put(ev, key, Splice(ev[key], 0))
    IN IF Len(spliced[key]) = 0 THEN Delete(spliced, key) ELSE spliced

\* #removeEventListener(eventName, index)
RemoveEventListener(ev, key, index) ==
    LET spliced == Put(ev, key, Splice(ev[key], index))
    IN IF Len(spliced[key]) = 0 THEN Delete(spliced, key) ELSE spliced

\* #addEventListener with the capacity test off by one: length > max
AddEventListenerOffByOne(ev, max, eventName, listener, isPrepend, isOnce) ==
    IF InvalidEventName(eventName)
    THEN [ev |-> ev, outcome |-> "InvalidEventName"]
    ELSE IF TypeOf(listener) # "function"
    THEN [ev |-> ev, outcome |-> "InvalidListener"]
    ELSE
      LET key == Trim(eventName.s)
          created == IF In(key, ev) THEN ev ELSE Put(ev, key, <<>>)
          record == [isOnce |-> isOnce, listener |-> listener]
      IN IF Less(max, Num(Len(created[key])))
         THEN [ev |-> created, outcome |-> "MemoryLeak"]
         ELSE IF isPrepend
         THEN [ev |-> Put(created, key, <<record>> \o created[key]),
               outcome |-> "ok"]
         ELSE [ev |-> Put(created, key, Append(created[key], record)),
               outcome |-> "ok"]

\* #addEventListener with the capacity test too strict: length + 1 >= max
AddEventListenerStrict(ev, max, eventName, listener, isPrepend, isOnce) ==
    IF InvalidEventName(eventName)
    THEN [ev |-> ev, outcome |-> "InvalidEventName"]
    ELSE IF TypeOf(listener) # "function"
    THEN [ev |-> ev, outcome |-> "InvalidListener"]
    ELSE
      LET key == Trim(eventName.s)
          created == IF In(key, ev) THEN ev ELSE Put(ev, key, <<>>)
          record == [isOnce |-> isOnce, listener |-> listener]
      IN IF ~Less(Num(Len(created[key]) + 1), max)
         THEN [ev |-> created, outcome |-> "MemoryLeak"]
         ELSE IF isPrepend
         THEN [ev |-> Put(created, key, <<record>> \o created[key]),
               outcome |-> "ok"]
         ELSE [ev |-> Put(created, key, Append(created[key], record)),
               outcome |-> "ok"]

\* #addEventListener that pushes whatever isPrepend says
AddEventListenerPushOnly(ev, max, eventName, listener, isPrepend, isOnce) ==
    IF InvalidEventName(eventName)
    THEN [ev |-> ev, outcome |-> "InvalidEventName"]
    ELSE IF TypeOf(listener) # "function"
    THEN [ev |-> ev, outcome |-> "InvalidListener"]
    ELSE
      LET key == Trim(eventName.s)
          created == IF In(key, ev) THEN ev ELSE Put(ev, key, <<>>)
          record == [isOnce |-> isOnce, listener |-> listener]
      IN IF Less(max, Num(Len(created[key]) + 1))
         THEN [ev |-> created, outcome |-> "MemoryLeak"]
         ELSE [ev |-> Put(created, key, Append(created[key], record)),
               outcome |-> "ok"]

\* #addEventListener(eventName, listener, {isPrepend, isOnce}): the registry
\* it leaves and how it ends
AddEventListener(ev, max, eventName, listener, isPrepend, isOnce) ==
    IF InvalidEventName(eventName)
    THEN [ev |-> ev, outcome |-> "InvalidEventName"]
    ELSE IF TypeOf(listener) # "function"
    THEN [ev |-> ev, outcome |-> "InvalidListener"]
    ELSE
      LET key == Trim(eventName.s)
          created == IF In(key, ev) THEN ev ELSE Put(ev, key, <<>>)
          record == [isOnce |-> isOnce, listener |-> listener]
      IN IF Less(max, Num(Len(created[key]) + 1))
         THEN [ev |-> created, outcome |-> "MemoryLeak"]
         ELSE IF isPrepend
         THEN [ev |-> Put(created, key, <<record>> \o created[key]),
               outcome |-> "ok"]
         ELSE [ev |-> Put(created, key, Append(created[key], record)),
               outcome |-> "ok"]

----------------------------------------------------------------------------
(* Queries.                                                                *)

\* get eventNames: Object.keys(this.#events)
eventNames == DOMAIN events

\* listenerCount(eventName, listener); listener may be "undefined"
listenerCount(eventName, listener) ==
    IF InvalidEventName(eventName)
    THEN [outcome |-> "InvalidEventName", value |-> 0]
    ELSE IF TypeOf(listener) \notin {"undefined", "function"}
    THEN [outcome |-> "InvalidListener", value |-> 0]
    ELSE IF ~In(eventName.s, events)
    THEN [outcome |-> "ok", value |-> 0]
    ELSE IF TypeOf(listener) = "function"
    THEN LET Same(event) == event.listener = listener
         IN [outcome |-> "ok",
             value |-> Len(SelectSeq(events[eventName.s], Same))]
    ELSE [outcome |-> "ok", value |-> Len(events[eventName.s])]

\* rawListeners(eventName)
rawListeners(eventName) ==
    IF InvalidEventName(eventName)
    THEN [outcome |-> "InvalidEventName", value |-> <<>>]
    ELSE IF ~In(eventName.s, events)
    THEN [outcome |-> "ok", value |-> <<>>]
    ELSE [outcome |-> "ok",
          value |-> [i \in 1 .. Len(events[eventName.s]) |->
                        events[eventName.s][i].listener]]

\* listeners without its filter on isOnce
ListenersWithOnce(eventName) == rawListeners(eventName)

\* listeners(eventName)
listeners(eventName) ==
    IF InvalidEventName(eventName)
    THEN [outcome |-> "InvalidEventName", value |-> <<>>]
    ELSE IF ~In(eventName.s, events)
    THEN [outcome |-> "ok", value |-> <<>>]
    ELSE LET NotOnce(event) == ~event.isOnce
             kept == SelectSeq(events[eventName.s], NotOnce)
         IN [outcome |-> "ok",
             value |-> [i \in 1 .. Len(kept) |-> kept[i].listener]]

----------------------------------------------------------------------------
(* The synchronous operations.                                             *)

Call(op, eventName, listener, value, outcome) ==
    [op |-> op, eventName |-> eventName, listener |-> listener,
     value |-> value, outcome |-> outcome]

NoCall == Call("none", Undefined, "undefined", NoArgument, "ok")

\* an emit() call that is not in flight
Idle ==
    [pc |-> "idle", eventName |-> Undefined, args |-> "none",
     snapshot |-> <<>>, invoked |-> <<>>, promises |-> <<>>,
     result |-> "none"]

\* the emit() calls of the caller, each in flight at most once at a time
Emitters == DOMAIN em
\* the one call of the caller that awaits each emit before its next call
AwaitedCalls == {"e1"}
\* the two calls of the caller that does not
OverlappingCalls == {"e1", "e2"}

\* set maxListeners that rejects only when every event exceeds the value
SetMaxListenersEvery(value) ==
    /\ LET arg == IF value.t = "undefined"
                  THEN Num(DefaultMaxListeners) ELSE value
       IN IF (arg.t # "int" /\ arg.t # "inf") \/ (arg.t = "int" /\ arg.n < 0)
          THEN /\ last' = Call("setMaxListeners", Undefined, "undefined",
                               value, "InvalidMaxListeners")
               /\ UNCHANGED maxListeners
          ELSE IF /\ DOMAIN events # {}
                  /\ \A key \in DOMAIN events :
                        Less(arg, Num(Len(events[key])))
          THEN /\ last' = Call("setMaxListeners", Undefined, "undefined",
                               value, "MemoryLeak")
               /\ UNCHANGED maxListeners
          ELSE /\ last' = Call("setMaxListeners", Undefined, "undefined",
                               value, "ok")
               /\ maxListeners' = arg
    /\ UNCHANGED <<events, em>>

\* set maxListeners (maxListeners = 10)
SetMaxListeners(value) ==
    /\ LET arg == IF value.t = "undefined"
                  THEN Num(DefaultMaxListeners) ELSE value
       IN IF (arg.t # "int" /\ arg.t # "inf") \/ (arg.t = "int" /\ arg.n < 0)
          THEN /\ last' = Call("setMaxListeners", Undefined, "undefined",
                               value, "InvalidMaxListeners")
               /\ UNCHANGED maxListeners
          ELSE IF \E key \in DOMAIN events : Less(arg, Num(Len(events[key])))
          THEN /\ last' = Call("setMaxListeners", Undefined, "undefined",
                               value, "MemoryLeak")
               /\ UNCHANGED maxListeners
          ELSE /\ last' = Call("setMaxListeners", Undefined, "undefined",
                               value, "ok")
               /\ maxListeners' = arg
    /\ UNCHANGED <<events, em>>

\* the registration family shares #addEventListener
Register(op, eventName, listener, isPrepend, isOnce) ==
    /\ LET r == AddEventListener(events, maxListeners, eventName, listener,
                                 isPrepend, isOnce)
       IN /\ TotalRecords(r.ev) <= MaxRecords
          /\ events' = r.ev
          /\ last' = Call(op, eventName, listener, NoArgument, r.outcome)
    /\ UNCHANGED <<maxListeners, em>>

\* addListener(eventName, listener), and its synonym on
AddListener(eventName, listener) ==
    Register("addListener", eventName, listener, FALSE, FALSE)

\* once(eventName, listener)
Once(eventName, listener) ==
    Register("once", eventName, listener, FALSE, TRUE)

\* prependListener(eventName, listener)
PrependListener(eventName, listener) ==
    Register("prependListener", eventName, listener, TRUE, FALSE)

\* prependOnceListener(eventName, listener)
PrependOnceListener(eventName, listener) ==
    Register("prependOnceListener", eventName, listener, TRUE, TRUE)

\* findIndex(event => event.listener === listener), counted from 0; -1 if none
RECURSIVE FindIndexFrom(_, _, _)
FindIndexFrom(arr, listener, index) ==
    IF index >= Len(arr) THEN -1
    ELSE IF arr[index + 1].listener = listener THEN index
    ELSE FindIndexFrom(arr, listener, index + 1)

\* findLastIndex in the place of findIndex: the last match, -1 if none
FindLastIndex(arr, listener) ==
    LET found == { i \in 0 .. Len(arr) - 1 : arr[i + 1].listener = listener }
    IN IF found = {} THEN -1
       ELSE CHOOSE i \in found : \A j \in found : j <= i

FindIndex(arr, listener) == FindIndexFrom(arr, listener, 0)

\* the registry removeListener(eventName, listener) leaves, valid arguments
RemoveListenerFrom(ev, eventName, listener) ==
    IF In(eventName.s, ev)
    THEN LET index == FindIndex(ev[eventName.s], listener)
         IN IF index > -1
            THEN RemoveEventListener(ev, eventName.s, index)
            ELSE ev
    ELSE ev

\* removeListener(eventName, listener), and its synonym off
RemoveListener(eventName, listener) ==
    /\ IF InvalidEventName(eventName)
       THEN /\ last' = Call("removeListener", eventName, listener,
                            NoArgument, "InvalidEventName")
            /\ UNCHANGED events
       ELSE IF TypeOf(listener) # "function"
       THEN /\ last' = Call("removeListener", eventName, listener,
                            NoArgument, "InvalidListener")
            /\ UNCHANGED events
       ELSE /\ last' = Call("removeListener", eventName, listener,
                            NoArgument, "ok")
            /\ events' = RemoveListenerFrom(events, eventName, listener)
    /\ UNCHANGED <<maxListeners, em>>

\* removeAllListeners with `if (!eventName)` ahead of the validation
RemoveAllListenersUnchecked(eventName) ==
    /\ IF eventName.t # "undefined" /\ InvalidEventName(eventName)
       THEN /\ last' = Call("removeAllListeners", eventName, "undefined",
                            NoArgument, "InvalidEventName")
            /\ events' = IF eventName.s = <<>> THEN EmptyRegistry ELSE events
       ELSE /\ last' = Call("removeAllListeners", eventName, "undefined",
                            NoArgument, "ok")
            /\ events' =
                 IF eventName.t = "undefined" \/ eventName.s = <<>>
                 THEN EmptyRegistry
                 ELSE IF In(eventName.s, events)
                 THEN Delete(events, eventName.s)
                 ELSE events
    /\ UNCHANGED <<maxListeners, em>>

\* removeAllListeners that empties the registry whatever its argument
RemoveAllListenersFromEvery(ev, eventName) == EmptyRegistry

\* the registry removeAllListeners(eventName) leaves, valid argument
RemoveAllListenersFrom(ev, eventName) ==
    IF eventName.t = "undefined" \/ eventName.s = <<>>
    THEN EmptyRegistry
    ELSE IF In(eventName.s, ev) THEN Delete(ev, eventName.s)
    ELSE ev

\* removeAllListeners(eventName)
RemoveAllListeners(eventName) ==
    /\ IF eventName.t # "undefined" /\ InvalidEventName(eventName)
       THEN /\ last' = Call("removeAllListeners", eventName, "undefined",
                            NoArgument, "InvalidEventName")
            /\ UNCHANGED events
       ELSE /\ last' = Call("removeAllListeners", eventName, "undefined",
                            NoArgument, "ok")
            /\ events' = RemoveAllListenersFrom(events, eventName)
    /\ UNCHANGED <<maxListeners, em>>

----------------------------------------------------------------------------
(* emit: the turn that calls the listeners, the settling of what they      *)
(* returned, and the turn after the await.                                 *)

\* the argument list an event is emitted with ("none": no call was made)
Args == {"x"}

\* what a listener does when called: returns a settled value, returns a
\* pending promise, or throws
Behaviours == {"return", "defer", "throw"}

\* event.listener() called without the arguments
CallListenerNoArgs(d, event, args, behaviour) ==
    LET called == Append(d.invoked,
                         [listener |-> event.listener, args |-> "none"])
    IN IF behaviour = "throw"
       THEN [invoked |-> called, promises |-> d.promises, threw |-> TRUE]
       ELSE [invoked |-> called,
             promises |-> Append(d.promises,
                                 IF behaviour = "defer" THEN "pending"
                                 ELSE "fulfilled"),
             threw |-> FALSE]

\* event.listener(...args), appended to what the map has done so far
CallListener(d, event, args, behaviour) ==
    LET called == Append(d.invoked,
                         [listener |-> event.listener, args |-> args])
    IN IF behaviour = "throw"
       THEN [invoked |-> called, promises |-> d.promises, threw |-> TRUE]
       ELSE [invoked |-> called,
             promises |-> Append(d.promises,
                                 IF behaviour = "defer" THEN "pending"
                                 ELSE "fulfilled"),
             threw |-> FALSE]

\* this.#events[eventName].map(event => event.listener(...args)) from index
\* k on: a listener that throws ends the map
RECURSIVE MapListeners(_, _, _, _, _)
MapListeners(d, arr, k, args, behaviours) ==
    IF k >= Len(arr) \/ d.threw THEN d
    ELSE MapListeners(CallListener(d, arr[k + 1], args, behaviours[k + 1]),
                      arr, k + 1, args, behaviours)

\* forEach((event, index) => event.isOnce && #removeEventListener(index))
\* from index on, over the live array: len is its length when forEach began,
\* an index past the current end is skipped, and the array is empty once
\* its key is deleted
RECURSIVE ForEachOnce(_, _, _, _)
ForEachOnce(ev, key, index, len) ==
    IF index >= len THEN ev
    ELSE IF In(key, ev) /\ index < Len(ev[key]) /\ ev[key][index + 1].isOnce
    THEN ForEachOnce(RemoveEventListener(ev, key, index), key, index + 1, len)
    ELSE ForEachOnce(ev, key, index + 1, len)

Ended(eventName, args, snapshot, invoked, promises, result) ==
    [pc |-> "done", eventName |-> eventName, args |-> args,
     snapshot |-> snapshot, invoked |-> invoked, promises |-> promises,
     result |-> result]

\* emit(eventName, ...args) up to its await
EmitStart(p, eventName, args) ==
    /\ em[p].pc = "idle"
    /\ IF InvalidEventName(eventName)
       THEN em' = [em EXCEPT ![p] = Ended(eventName, args, <<>>, <<>>, <<>>,
                                          "InvalidEventName")]
       ELSE IF ~In(eventName.s, events)
       THEN em' = [em EXCEPT ![p] = Ended(eventName, args, <<>>, <<>>, <<>>,
                                          "false")]
       ELSE LET arr == events[eventName.s]
            IN \E behaviours \in [1 .. Len(arr) -> Behaviours] :
                 LET d == MapListeners([invoked |-> <<>>, promises |-> <<>>,
                                        threw |-> FALSE],
                                       arr, 0, args, behaviours)
                 IN IF d.threw
                    THEN em' = [em EXCEPT ![p] =
                                  Ended(eventName, args, arr, d.invoked,
                                        d.promises, "CallbackError")]
                    ELSE em' = [em EXCEPT ![p] =
                                  [pc |-> "awaiting", eventName |-> eventName,
                                   args |-> args, snapshot |-> arr,
                                   invoked |-> d.invoked,
                                   promises |-> d.promises,
                                   result |-> "none"]]
    /\ last' = Call("emit", eventName, "undefined", NoArgument, "pending")
    /\ UNCHANGED <<events, maxListeners>>

\* a pending promise returned by a listener fulfils or rejects
Settle(p, i, how) ==
    /\ em[p].pc = "awaiting"
    /\ i \in 1 .. Len(em[p].promises)
    /\ em[p].promises[i] = "pending"
    /\ em' = [em EXCEPT ![p].promises[i] = how]
    /\ UNCHANGED <<events, maxListeners, last>>

AllSettled(promises) ==
    \A i \in 1 .. Len(promises) : promises[i] # "pending"

\* emit after await Promise.allSettled(...): the forEach and return true
EmitResume(p) ==
    /\ em[p].pc = "awaiting"
    /\ AllSettled(em[p].promises)
    /\ LET key == em[p].eventName.s
       IN IF ~In(key, events)
          THEN /\ em' = [em EXCEPT ![p].pc = "done", ![p].result = "TypeError"]
               /\ UNCHANGED events
          ELSE /\ events' = ForEachOnce(events, key, 0, Len(events[key]))
               /\ em' = [em EXCEPT ![p].pc = "done", ![p].result = "true"]
    /\ UNCHANGED <<maxListeners, last>>

\* the caller receives the result of its emit()
Return(p) ==
    /\ em[p].pc = "done"
    /\ em' = [em EXCEPT ![p] = Idle]
    /\ last' = Call("emit", em[p].eventName, "undefined", NoArgument,
                    em[p].result)
    /\ UNCHANGED <<events, maxListeners>>

----------------------------------------------------------------------------
(* emit with listeners that call the emitter's own methods on the emitted  *)
(* event while the map is running over the live array.                     *)

\* what a listener does to the registry before it returns or throws: it
\* calls one method of the emitter with the emitted name and itself
Effects ==
    {"none", "addListener", "prependListener", "once", "removeListener",
     "removeAllListeners"}

\* the registry the method call of a listener leaves
ApplyEffect(ev, max, eventName, listener, effect) ==
    CASE effect = "addListener" ->
           AddEventListener(ev, max, eventName, listener, FALSE, FALSE).ev
      [] effect = "prependListener" ->
           AddEventListener(ev, max, eventName, listener, TRUE, FALSE).ev
      [] effect = "once" ->
           AddEventListener(ev, max, eventName, listener, FALSE, TRUE).ev
      [] effect = "removeListener" ->
           RemoveListenerFrom(ev, eventName, listener)
      [] effect = "removeAllListeners" ->
           RemoveAllListenersFrom(ev, eventName)
      [] OTHER -> ev

\* event.listener(...args) for the element at index k of the array the map
\* walks. d.arr is that array object: the methods unshift, push and splice
\* it in place while it is the value of the key (d.attached); delete and
\* `#events = {}` detach it unchanged, and a later registration builds a
\* new array
CallLive(d, eventName, max, k, args, behaviour, effect) ==
    LET event == d.arr[k + 1]
        called == CallListener(d, event, args, behaviour)
        ev2 == ApplyEffect(d.ev, max, eventName, event.listener, effect)
        arr2 == IF ~d.attached THEN d.arr
                ELSE IF In(eventName.s, ev2) THEN ev2[eventName.s]
                ELSE IF effect = "removeListener" THEN <<>>
                ELSE d.arr
    IN [ev |-> ev2, arr |-> arr2,
        attached |-> d.attached /\ In(eventName.s, ev2),
        invoked |-> called.invoked, promises |-> called.promises,
        threw |-> called.threw]

\* this.#events[eventName].map(...) from index k on: the length is read once
\* before the first call (len), an index the array no longer has is not
\* visited, a listener that throws ends the map
RECURSIVE MapLive(_, _, _, _, _, _, _, _)
MapLive(d, eventName, max, k, len, args, behaviours, effects) ==
    IF k >= len \/ d.threw \/ k >= Len(d.arr) THEN d
    ELSE MapLive(CallLive(d, eventName, max, k, args, behaviours[k + 1],
                          effects[k + 1]),
                 eventName, max, k + 1, len, args, behaviours, effects)

\* emit(eventName, ...args) up to its await, with such listeners
EmitStartLive(p, eventName, args) ==
    /\ em[p].pc = "idle"
    /\ IF InvalidEventName(eventName)
       THEN /\ em' = [em EXCEPT ![p] = Ended(eventName, args, <<>>, <<>>,
                                             <<>>, "InvalidEventName")]
            /\ UNCHANGED events
       ELSE IF ~In(eventName.s, events)
       THEN /\ em' = [em EXCEPT ![p] = Ended(eventName, args, <<>>, <<>>,
                                             <<>>, "false")]
            /\ UNCHANGED events
       ELSE LET arr == events[eventName.s]
            IN \E behaviours \in [1 .. Len(arr) -> Behaviours],
                  effects \in [1 .. Len(arr) -> Effects] :
                 LET d == MapLive([ev |-> events, arr |-> arr,
                                   attached |-> TRUE, invoked |-> <<>>,
                                   promises |-> <<>>, threw |-> FALSE],
                                  eventName, maxListeners, 0, Len(arr),
                                  args, behaviours, effects)
                 IN /\ TotalRecords(d.ev) <= MaxRecords
                    /\ events' = d.ev
                    /\ IF d.threw
                       THEN em' = [em EXCEPT ![p] =
                                     Ended(eventName, args, arr, d.invoked,
                                           d.promises, "CallbackError")]
                       ELSE em' = [em EXCEPT ![p] =
                                     [pc |-> "awaiting",
                                      eventName |-> eventName,
                                      args |-> args, snapshot |-> arr,
                                      invoked |-> d.invoked,
                                      promises |-> d.promises,
                                      result |-> "none"]]
    /\ last' = Call("emit", eventName, "undefined", NoArgument, "pending")
    /\ UNCHANGED maxListeners

----------------------------------------------------------------------------
(* The specification.                                                      *)

\* constructor (maxListeners): an empty registry and a capacity the setter
\* accepted
Init ==
    /\ events = EmptyRegistry
    /\ maxListeners \in
         { IF c.t = "undefined" THEN Num(DefaultMaxListeners) ELSE c :
             c \in { x \in CapacityInputs :
                       x.t \in {"undefined", "inf"}
                       \/ (x.t = "int" /\ x.n >= 0) } }
    /\ em = [p \in AwaitedCalls |-> Idle]
    /\ last = NoCall

\* no emit() is in flight: the caller awaits each emit before its next call
AllIdle == \A p \in Emitters : em[p].pc = "idle"

Next ==
    \/ AllIdle /\ \E value \in CapacityInputs : SetMaxListeners(value)
    \/ AllIdle /\ \E eventName \in EventNameInputs,
                     listener \in ListenerInputs :
                    AddListener(eventName, listener)
    \/ AllIdle /\ \E eventName \in EventNameInputs,
                     listener \in ListenerInputs :
                    Once(eventName, listener)
    \/ AllIdle /\ \E eventName \in EventNameInputs,
                     listener \in ListenerInputs :
                    PrependListener(eventName, listener)
    \/ AllIdle /\ \E eventName \in EventNameInputs,
                     listener \in ListenerInputs :
                    PrependOnceListener(eventName, listener)
    \/ AllIdle /\ \E eventName \in EventNameInputs,
                     listener \in ListenerInputs :
                    RemoveListener(eventName, listener)
    \/ AllIdle /\ \E eventName \in EventNameInputs \cup {Undefined} :
                    RemoveAllListeners(eventName)
    \/ AllIdle /\ \E p \in Emitters, eventName \in EventNameInputs,
                     args \in Args :
                    EmitStart(p, eventName, args)
    \/ \E p \in Emitters, i \in 1 .. MaxRecords,
          how \in {"fulfilled", "rejected"} : Settle(p, i, how)
    \/ \E p \in Emitters : EmitResume(p)
    \/ \E p \in Emitters : Return(p)

Spec == Init /\ [][Next]_vars

\* arguments the validations refuse, beside one event name, one callback
\* and two capacities they accept
MalformedEventNames == { Str(<<>>), Str(<<" ">>), Undefined, NotAString }
MalformedListeners == { "undefined", "null" }
MalformedCapacities == { Num(-1), NaN, Frac(1), NoNumber }
AnyEventName == { Str(<<"a">>) } \cup MalformedEventNames
AnyListener == { "f" } \cup MalformedListeners
AnyCapacity == { Num(1), Infinity } \cup MalformedCapacities

\* the sequential caller passing malformed arguments as well
NextInvalid ==
    \/ AllIdle /\ \E value \in AnyCapacity : SetMaxListeners(value)
    \/ AllIdle /\ \E eventName \in AnyEventName, listener \in AnyListener :
                    AddListener(eventName, listener)
    \/ AllIdle /\ \E eventName \in AnyEventName, listener \in AnyListener :
                    Once(eventName, listener)
    \/ AllIdle /\ \E eventName \in AnyEventName, listener \in AnyListener :
                    PrependListener(eventName, listener)
    \/ AllIdle /\ \E eventName \in AnyEventName, listener \in AnyListener :
                    PrependOnceListener(eventName, listener)
    \/ AllIdle /\ \E eventName \in AnyEventName, listener \in AnyListener :
                    RemoveListener(eventName, listener)
    \/ AllIdle /\ \E eventName \in AnyEventName :
                    RemoveAllListeners(eventName)
    \/ AllIdle /\ \E p \in Emitters, eventName \in AnyEventName,
                     args \in Args :
                    EmitStart(p, eventName, args)
    \/ \E p \in Emitters, i \in 1 .. MaxRecords,
          how \in {"fulfilled", "rejected"} : Settle(p, i, how)
    \/ \E p \in Emitters : EmitResume(p)
    \/ \E p \in Emitters : Return(p)

SpecInvalid == Init /\ [][NextInvalid]_vars

\* a caller that starts an emit while another one is awaiting its callbacks,
\* on one event whose records it registered beforehand
NextOverlap ==
    \/ AllIdle /\ AddListener(Str(<<"a">>), "f")
    \/ AllIdle /\ Once(Str(<<"a">>), "f")
    \/ \E p \in Emitters, args \in Args : EmitStart(p, Str(<<"a">>), args)
    \/ \E p \in Emitters, i \in 1 .. MaxRecords,
          how \in {"fulfilled", "rejected"} : Settle(p, i, how)
    \/ \E p \in Emitters : EmitResume(p)
    \/ \E p \in Emitters : Return(p)

\* constructor (maxListeners), for the caller with two emits in flight
InitOverlap ==
    /\ events = EmptyRegistry
    /\ maxListeners \in
         { IF c.t = "undefined" THEN Num(DefaultMaxListeners) ELSE c :
             c \in { x \in CapacityInputs :
                       x.t \in {"undefined", "inf"}
                       \/ (x.t = "int" /\ x.n >= 0) } }
    /\ em = [p \in OverlappingCalls |-> Idle]
    /\ last = NoCall

SpecOverlap == InitOverlap /\ [][NextOverlap]_vars

\* the sequential caller of one event whose listeners call the emitter
NextLive ==
    \/ AllIdle /\ \E listener \in ListenerInputs :
                    AddListener(Str(<<"a">>), listener)
    \/ AllIdle /\ \E listener \in ListenerInputs :
                    Once(Str(<<"a">>), listener)
    \/ AllIdle /\ \E p \in Emitters, args \in Args :
                    EmitStartLive(p, Str(<<"a">>), args)
    \/ \E p \in Emitters, i \in 1 .. MaxRecords,
          how \in {"fulfilled", "rejected"} : Settle(p, i, how)
    \/ \E p \in Emitters : EmitResume(p)
    \/ \E p \in Emitters : Return(p)

SpecLive == Init /\ [][NextLive]_vars

\* the synchronous interface alone: a caller that never emits
NextCalls ==
    \/ \E value \in CapacityInputs : SetMaxListeners(value)
    \/ \E eventName \in EventNameInputs, listener \in ListenerInputs :
          AddListener(eventName, listener)
    \/ \E eventName \in EventNameInputs, listener \in ListenerInputs :
          Once(eventName, listener)
    \/ \E eventName \in EventNameInputs, listener \in ListenerInputs :
          PrependListener(eventName, listener)
    \/ \E eventName \in EventNameInputs, listener \in ListenerInputs :
          PrependOnceListener(eventName, listener)
    \/ \E eventName \in EventNameInputs, listener \in ListenerInputs :
          RemoveListener(eventName, listener)
    \/ \E eventName \in EventNameInputs \cup {Undefined} :
          RemoveAllListeners(eventName)

SpecCalls == Init /\ [][NextCalls]_vars

----------------------------------------------------------------------------
(* The claims.                                                             *)

\* an emission that has ended, of an event that had records when it began
EndedKnown(p) == em[p].pc = "done" /\ em[p].snapshot # <<>>

\* a callback of the emission failed: it threw, or its promise rejected
CallbackFailed(p) ==
    \/ em[p].result = "CallbackError"
    \/ \E i \in 1 .. Len(em[p].promises) : em[p].promises[i] = "rejected"

\* every record of the snapshot was called once, in order
InvokedAll(p) ==
    /\ Len(em[p].invoked) = Len(em[p].snapshot)
    /\ \A i \in 1 .. Len(em[p].snapshot) :
         em[p].invoked[i].listener = em[p].snapshot[i].listener

HasOnce(arr) == \E i \in 1 .. Len(arr) : arr[i].isOnce

\* the records of the event named key, none when the key is absent
Records(ev, key) == IF In(key, ev) THEN ev[key] ELSE <<>>

\* C1: an emit on an event with at least one record, none of whose
\* callbacks fails, returns true and has called the callback of every record
\* registered when it began exactly once, each with the forwarded arguments.
C1_EmitInvokesEveryRecord ==
    \A p \in Emitters :
      (EndedKnown(p) /\ ~CallbackFailed(p)) =>
        /\ em[p].result = "true"
        /\ em[p].invoked =
             [i \in 1 .. Len(em[p].snapshot) |->
                [listener |-> em[p].snapshot[i].listener,
                 args |-> em[p].args]]

C1_Witness ==
    \E p \in Emitters :
      /\ EndedKnown(p) /\ ~CallbackFailed(p)
      /\ Len(em[p].snapshot) >= 2
      /\ em[p].snapshot[1].listener # em[p].snapshot[2].listener
      /\ em[p].result = "true"

\* C2: when an emit on a known event has completed, no one-shot record of
\* the event remains in its sequence, however many one-shot records there
\* were and wherever they stood.
C2_NoOnceRecordRemains ==
    \A p \in Emitters :
      (em[p].pc = "done" /\ em[p].result = "true") =>
        ~HasOnce(Records(events, em[p].eventName.s))

\* C3: a callback that fails, when called or later through its promise,
\* does not prevent any other record of the event from being called in that
\* emission.
C3_FailureSkipsNoListener ==
    \A p \in Emitters :
      (EndedKnown(p) /\ CallbackFailed(p)) => InvokedAll(p)

\* C4: an emit on a known event never fails because a callback failed: it
\* still completes with result true and still performs the one-shot cleanup.
C4_FailureNeverSurfaces ==
    \A p \in Emitters :
      (EndedKnown(p) /\ CallbackFailed(p)) =>
        /\ em[p].result = "true"
        /\ HasOnce(em[p].snapshot) =>
             Len(Records(events, em[p].eventName.s)) < Len(em[p].snapshot)

C6_NoEmptySequence ==
    \A key \in eventNames : listenerCount(Str(key), "undefined").value > 0

RegistrationOps ==
    {"addListener", "once", "prependListener", "prependOnceListener"}

\* a step that is a registration call with the given arguments
Registration(eventName, listener) ==
    \/ AddListener(eventName, listener)
    \/ Once(eventName, listener)
    \/ PrependListener(eventName, listener)
    \/ PrependOnceListener(eventName, listener)

C8_FailedRegistrationChangesNothing ==
    [][(/\ last'.op \in RegistrationOps
        /\ Registration(last'.eventName, last'.listener)
        /\ last'.outcome = "MemoryLeak")
          => UNCHANGED <<events, maxListeners>>]_vars

\* the value the setter stores for an argument
Capacity(value) ==
    IF value.t = "undefined" THEN Num(DefaultMaxListeners) ELSE value

SameEvent(n1, n2) == Trim(n1.s) = Trim(n2.s)

\* C10: two event names equal after trimming are the same event for every
\* operation: listenerCount and rawListeners agree on them, emit on one calls
\* the listeners registered under the other, and removeListener and
\* removeAllListeners on one remove the records registered under the other.
C10_TrimmedNamesAreOneEvent ==
    [][/\ \A n1 \in EventNameInputs, n2 \in EventNameInputs :
            SameEvent(n1, n2) =>
              /\ listenerCount(n1, "undefined")'
                   = listenerCount(n2, "undefined")'
              /\ rawListeners(n1)' = rawListeners(n2)'
       /\ \A p \in Emitters :
            (/\ last'.op = "emit"
             /\ EmitStart(p, last'.eventName, em'[p].args)) =>
              em'[p].snapshot = Records(events, Trim(last'.eventName.s))
       /\ (/\ last'.op = "removeListener"
           /\ RemoveListener(last'.eventName, last'.listener)) =>
             events' = RemoveListenerFrom(events,
                                          Str(Trim(last'.eventName.s)),
                                          last'.listener)
       /\ (/\ last'.op = "removeAllListeners"
           /\ last'.eventName.t = "string"
           /\ RemoveAllListeners(last'.eventName)) =>
             events' = RemoveAllListenersFrom(events,
                                              Str(Trim(last'.eventName.s)))
      ]_vars

\* C11: with maxListeners 0 or Infinity the number of listeners is
\* unlimited: no registration fails with 'Memory leak detected'.
C11_ZeroAndInfinityAreUnlimited ==
    [][(/\ last'.op \in RegistrationOps
        /\ Registration(last'.eventName, last'.listener)
        /\ maxListeners \in {Num(0), Infinity})
          => last'.outcome # "MemoryLeak"]_vars

\* C12: an emit on an event name without records returns false, calls no
\* callback and leaves every sequence, eventNames and maxListeners as they
\* were.
C12_EmitWithoutRecordsReturnsFalse ==
    [][\A p \in Emitters :
         (/\ em'[p] # em[p] /\ em'[p].pc # "idle"
          /\ ~InvalidEventName(em'[p].eventName)
          /\ em'[p].snapshot = <<>>) =>
           /\ em'[p].invoked = <<>>
           /\ em'[p].pc = "done" /\ em'[p].result = "false"
           /\ UNCHANGED <<events, maxListeners>>]_vars

\* the records of arr but the first one whose callback is listener
RECURSIVE WithoutFirst(_, _)
WithoutFirst(arr, listener) ==
    IF arr = <<>> THEN <<>>
    ELSE IF Head(arr).listener = listener THEN Tail(arr)
    ELSE <<Head(arr)>> \o WithoutFirst(Tail(arr), listener)

C14_RemoveAllListenersClears ==
    [][(/\ last'.op = "removeAllListeners"
        /\ RemoveAllListeners(last'.eventName)) =>
          /\ last'.outcome = "ok"
          /\ maxListeners' = maxListeners
          /\ IF last'.eventName = Undefined
             THEN DOMAIN events' = {}
             ELSE /\ Records(events', last'.eventName.s) = <<>>
                  /\ last'.eventName.s \notin DOMAIN events'
                  /\ \A key \in (DOMAIN events \cup DOMAIN events')
                                  \ {last'.eventName.s} :
                       /\ key \in DOMAIN events /\ key \in DOMAIN events'
                       /\ events'[key] = events[key]
                  /\ ~In(last'.eventName.s, events) => events' = events]_vars

\* removeAllListeners(e) has run and another event still has its two records
C14_Witness ==
    /\ last.op = "removeAllListeners" /\ last.outcome = "ok"
    /\ last.eventName = Str(<<"b">>)
    /\ Len(Records(events, <<"a">>)) = 2
    /\ eventNames = {<<"a">>}

\* C15: a successful registration by a prepend variant puts its callback in
\* front of all entries rawListeners(e) had, one by an append variant puts
\* it behind them, so rawListeners(e) is the prepended callbacks in reverse
\* registration order followed by the appended ones in registration order,
\* and listenerCount(e) grows by one with each registration.
C15_RawListenersInRegistrationOrder ==
    [][(/\ last'.op \in RegistrationOps
        /\ last'.outcome = "ok"
        /\ Registration(last'.eventName, last'.listener)) =>
          \A e \in { Str(Trim(n.s)) : n \in EventNameInputs } :
            e.s = Trim(last'.eventName.s) =>
              /\ rawListeners(e)'.value =
                   IF last'.op \in {"prependListener", "prependOnceListener"}
                   THEN <<last'.listener>> \o rawListeners(e).value
                   ELSE rawListeners(e).value \o <<last'.listener>>
              /\ listenerCount(e, "undefined")'.value =
                   listenerCount(e, "undefined").value + 1]_vars

\* a prepend has put its callback in front of two entries of another one
C15_Witness ==
    /\ last.op \in {"prependListener", "prependOnceListener"}
    /\ last.outcome = "ok"
    /\ LET raw == rawListeners(Str(Trim(last.eventName.s))).value
       IN /\ Len(raw) = 3
          /\ raw[1] = last.listener
          /\ raw[2] # last.listener

\* the entries of raw, from the i-th on, whose record is not one-shot
RECURSIVE PermanentFrom(_, _, _)
PermanentFrom(raw, recs, i) ==
    IF i > Len(raw) THEN <<>>
    ELSE (IF recs[i].isOnce THEN <<>> ELSE <<raw[i]>>)
           \o PermanentFrom(raw, recs, i + 1)

C17_EmitKeepsPermanentRecords ==
    [][\A p \in Emitters :
         em'[p] # em[p] =>
           LET name == IF em[p].pc = "idle" THEN em'[p].eventName.s
                       ELSE em[p].eventName.s
           IN /\ maxListeners' = maxListeners
              /\ \A e \in EventNameInputs : listeners(e)' = listeners(e)
              /\ \A key \in (DOMAIN events \cup DOMAIN events') \ {name} :
                   /\ key \in DOMAIN events /\ key \in DOMAIN events'
                   /\ events'[key] = events[key]]_vars

\* an emit has ended after removing a one-shot record that stood behind a
\* permanent one, which is still registered
C17_Witness ==
    \E p \in Emitters :
      /\ em[p].pc = "done" /\ em[p].result = "true"
      /\ Len(em[p].snapshot) = 2
      /\ ~em[p].snapshot[1].isOnce /\ em[p].snapshot[2].isOnce
      /\ Records(events, em[p].eventName.s) = <<em[p].snapshot[1]>>
      /\ listeners(em[p].eventName).value = <<em[p].snapshot[1].listener>>

InvalidArgument ==
    {"InvalidEventName", "InvalidListener", "InvalidMaxListeners"}

\* C18: an operation that fails with InvalidArgument (malformed event name,
\* callback that is not callable, malformed capacity) leaves every sequence,
\* eventNames and maxListeners unchanged, and an emit that fails so has
\* called no callback.
C18_InvalidArgumentChangesNothing ==
    [][/\ last'.outcome \in InvalidArgument
            => UNCHANGED <<events, maxListeners>>
       /\ \A p \in Emitters :
            (em'[p] # em[p] /\ em'[p].result \in InvalidArgument) =>
              /\ em'[p].invoked = <<>> /\ em'[p].promises = <<>>
              /\ UNCHANGED <<events, maxListeners>>]_vars

\* a call with a malformed argument has failed on a registry that holds
\* records
C18_Witness ==
    /\ last.outcome \in InvalidArgument
    /\ last.op \in {"removeAllListeners", "emit", "once"}
    /\ Len(Records(events, <<"a">>)) = 2

\* C19: the result of an emit is not delivered, and its one-shot cleanup
\* does not run, before every callback the emission invoked has settled.
C19_NoResultBeforeAllSettled ==
    [][\A p \in Emitters :
         (/\ em'[p] # em[p]
          /\ em'[p].pc = "done" \/ events' # events) =>
           AllSettled(em'[p].promises)]_vars

\* C20: a record registered with once or prependOnceListener is invoked at
\* most once, also by emissions of its event that overlap: of two emissions
\* in flight over the same records (no registration or removal happens
\* between their dispatches), no one-shot record is invoked by both.
C20_OnceInvokedAtMostOnce ==
    \A p, q \in Emitters :
      (/\ p # q
       /\ em[p].pc \in {"awaiting", "done"}
       /\ em[q].pc \in {"awaiting", "done"}
       /\ em[p].eventName.s = em[q].eventName.s
       /\ em[p].snapshot = em[q].snapshot) =>
         \A i \in 1 .. Len(em[p].snapshot) :
           em[p].snapshot[i].isOnce =>
             ~(i <= Len(em[p].invoked) /\ i <= Len(em[q].invoked))

\* C21: an emit calls every record its event had when it began exactly
\* once, in order, none skipped and none twice, also when a callback
\* registers (append or prepend) or removes records of the event during the
\* dispatch; stated for the emissions none of whose callbacks throws.
C21_DispatchFollowsSnapshot ==
    \A p \in Emitters :
      (em[p].pc \in {"awaiting", "done"} /\ em[p].result # "CallbackError")
        => InvokedAll(p)

\* C22: a one-shot record that a callback registers on the emitted event
\* during the emission is not taken by that emission's cleanup. Stated for
\* the emissions that began with no one-shot record, where every one-shot
\* record the cleanup meets was registered by a callback of this emission:
\* the cleanup leaves the registry as it finds it.
C22_CleanupSparesRecordsAddedDuringEmit ==
    [][\A p \in Emitters :
         (/\ em[p].pc = "awaiting" /\ em'[p].pc = "done"
          /\ ~HasOnce(em[p].snapshot)) =>
           events' = events]_vars

\* C23: an emission during which a callback removes records of its event,
\* all of them and the event name included, still completes with result
\* true: the turn after the await never fails.
C23_RemovalDuringEmitIsTolerated ==
    [][\A p \in Emitters :
         (em[p].pc = "awaiting" /\ em'[p].pc = "done") =>
           em'[p].result = "true"]_vars

\* C24: of two emissions of one known event that overlap, both complete
\* with result true, whichever completes first and also when the cleanup of
\* the first one empties the event; stated for the emissions none of whose
\* callbacks throws.
C24_OverlappingEmitsBothSucceed ==
    \A p, q \in Emitters :
      (/\ p # q
       /\ em[p].pc = "done" /\ em[p].snapshot # <<>>
       /\ em[p].snapshot = em[q].snapshot
       /\ em[p].result # "CallbackError") =>
         em[p].result = "true"

====
